---- MODULE Spec2Model ----
(***************************************************************************)
(* A model of OnSSTOVE (src/onsstove/onsstove.py) and of the discounted    *)
(* cost functions of src/onsstove/technology.py.                           *)
(*                                                                         *)
(* Python values are represented as follows: None is the string "None"    *)
(* for a scalar, the empty sequence << >> for an optional tuple or nested  *)
(* object, and id 0 for an object reference.  A raised exception is the    *)
(* outcome "error" of the call, recorded in lastCall.                      *)
(***************************************************************************)
EXTENDS Integers, Sequences, FiniteSets, TLC

VARIABLES
    layers,       \* self.layers: category -> name -> layer, in dict order
    objs,         \* the Layer objects created so far, by object id
    project_crs,  \* self.project_crs
    cell_size,    \* self.cell_size: << >> (None) or <<width, height>>
    base_layer,   \* self.base_layer: object id, 0 for None
    mask_layer,   \* self.mask_layer: << >> (None) or <<[crs |-> ...]>>
    csv,          \* the rows DictReader gives for the file at path_to_config
    specs,        \* self.specs: << >> (None) or <<dict>>
    techs,        \* self.techs: << >> (None) or <<dict>>
    gdf,          \* self.gdf: << >> (no such attribute yet) or <<point table>>
    cells,        \* self.rows, self.cols: the cells of the points, << >> before
    technology,   \* the Technology the cost functions are called with (tech)
    project_life, \* the module global project_life of technology.py:
                  \* << >> (unbound) or <<n>>
    frame,        \* the running call of morbidity or mortality: << >> (none)
                  \* or <<its local variables>>
    lastCall      \* the last method called, its outcome and what its loop visited

pipeVars == <<layers, objs, project_crs, cell_size, base_layer, mask_layer>>
confVars == <<csv, specs, techs>>
tableVars == <<gdf, cells>>
econVars == <<technology, project_life, frame>>
nonPipeVars == <<confVars, tableVars, econVars>>
nonConfVars == <<pipeVars, tableVars, econVars>>
nonEconVars == <<pipeVars, confVars, tableVars>>
vars == <<pipeVars, confVars, tableVars, econVars, lastCall>>

-----------------------------------------------------------------------------
(* Bounds and input domains *)

MaxAdds == 2      \* Layer objects constructed by add_layer in one run
MaxFrictions == 1 \* friction rasters attached in one run

Categories == {"demand", "supply"}
Names      == {"population", "roads"}
\* the (category, name) keys add_layer is called with
Keys       == {<<"demand", "population">>, <<"demand", "roads">>,
               <<"supply", "population">>}

RasterPaths == {"pop.tif", "ntl.tif"}
FrictionPaths == {"ntl.tif"}
VectorPaths == {"roads.shp"}
MaskCRSs    == {"EPSG:4326"}

Abs(x) == IF x < 0 THEN -x ELSE x

\* What reading the file at layer_path gives: CRS, the affine transform
\* coefficients a (cell width), b (rotation), e (minus cell height), and an
\* identifier of the shape and origin (the extent).
FileMeta(path) ==
    CASE path = "pop.tif"   -> [crs |-> "EPSG:4326", a |-> 100, b |-> 0, e |-> -100, ext |-> "extA"]
      [] path = "ntl.tif"   -> [crs |-> "EPSG:3857", a |-> 200, b |-> 0, e |-> -200, ext |-> "extB"]
      [] path = "roads.shp" -> [crs |-> "EPSG:3857", a |-> 0, b |-> 0, e |-> 0, ext |-> "none"]

-----------------------------------------------------------------------------
(* Layer objects (layer.py) *)

\* RasterLayer(category, name, layer_path, ...): meta read from the file.
NewRaster(category, name, path) ==
    [kind |-> "raster", category |-> category, name |-> name, path |-> path,
     crs |-> FileMeta(path).crs, a |-> FileMeta(path).a, b |-> FileMeta(path).b,
     e |-> FileMeta(path).e, ext |-> FileMeta(path).ext,
     masked |-> FALSE, friction |-> << >>]

\* VectorLayer(category, name, layer_path, ...).
NewVector(category, name, path) ==
    [kind |-> "vector", category |-> category, name |-> name, path |-> path,
     crs |-> FileMeta(path).crs, a |-> 0, b |-> 0, e |-> 0, ext |-> "none",
     masked |-> FALSE, friction |-> << >>]

\* isinstance(layer.friction, RasterLayer)
HasFriction(l) == Len(l.friction) = 1

\* layer.reproject(crs, output_path, cell_width, cell_height, method):
\* the layer takes the given CRS and, when a cell size is given, that cell size.
Reproject(l, crs, size) ==
    IF l.kind = "raster" /\ Len(size) = 2
    THEN [l EXCEPT !.crs = crs, !.a = size[1], !.e = -size[2]]
    ELSE [l EXCEPT !.crs = crs]

\* layer.mask(mask_layer, output_path): clipped to the boundary.
Mask(l) == [l EXCEPT !.masked = TRUE]

\* layer.align(base_path, output_path): resampled onto the base raster's grid.
Align(l, base) ==
    [l EXCEPT !.crs = base.crs, !.a = base.a, !.b = base.b, !.e = base.e,
              !.ext = base.ext]

-----------------------------------------------------------------------------
(* The registry self.layers: a sequence (dict order) of
   [category, entries], entries a sequence of [name, id]. *)

CatIndex(reg, category) ==
    IF \E i \in 1..Len(reg) : reg[i].category = category
    THEN CHOOSE i \in 1..Len(reg) : reg[i].category = category
    ELSE 0

NameIndex(entries, name) ==
    IF \E j \in 1..Len(entries) : entries[j].name = name
    THEN CHOOSE j \in 1..Len(entries) : entries[j].name = name
    ELSE 0

\* self.layers[category][name]; 0 when the lookup raises KeyError
Lookup(reg, category, name) ==
    LET ci == CatIndex(reg, category) IN
    IF ci = 0 THEN 0
    ELSE LET ni == NameIndex(reg[ci].entries, name) IN
         IF ni = 0 THEN 0 ELSE reg[ci].entries[ni].id

\* entries[name] = id on a dict: replaces in place or appends
PutName(entries, name, id) ==
    LET ni == NameIndex(entries, name) IN
    IF ni = 0 THEN Append(entries, [name |-> name, id |-> id])
    ELSE [entries EXCEPT ![ni] = [name |-> name, id |-> id]]

\* self.layers[category][name] = layer, creating the category when needed
Register(reg, category, name, id) ==
    LET ci == CatIndex(reg, category) IN
    IF ci = 0
    THEN Append(reg, [category |-> category,
                      entries |-> <<[name |-> name, id |-> id]>>])
    ELSE [reg EXCEPT ![ci].entries = PutName(@, name, id)]

\* the (category, name) pairs a registry-shaped value holds, with their objects
ItemsOf(reg) ==
    UNION {{[category |-> reg[i].category, name |-> reg[i].entries[j].name,
             id |-> reg[i].entries[j].id] : j \in 1..Len(reg[i].entries)} :
           i \in 1..Len(reg)}

PairsOf(reg) == {<<it.category, it.name>> : it \in ItemsOf(reg)}

-----------------------------------------------------------------------------
(* Selections: 'all', or a dict category -> list of names (in dict order) *)

SelAll == [all |-> TRUE, map |-> << >>]
SelMap(m) == [all |-> FALSE, map |-> m]

Selections ==
    {SelAll,
     SelMap(<<[category |-> "demand", names |-> <<"population">>]>>),
     SelMap(<<[category |-> "demand", names |-> <<"population", "roads">>]>>),
     SelMap(<<[category |-> "supply", names |-> <<"population">>],
              [category |-> "demand", names |-> << >>]>>)}

\* the (category, name) pairs a selection lists
Listed(sel) ==
    UNION {{<<sel.map[i].category, sel.map[i].names[j]>> :
              j \in 1..Len(sel.map[i].names)} : i \in 1..Len(sel.map)}

\* get_layers(layers): 'all' gives self.layers itself.  Otherwise the dict
\* comprehension looks up every listed pair (KeyError when one is missing)
\* and stores {name: layer} under the key category, so that for one category
\* each name replaces the one stored before it.
GetLayers(sel) ==
    IF sel.all THEN [err |-> FALSE, ds |-> layers]
    ELSE LET hit == SelectSeq(sel.map, LAMBDA m : Len(m.names) > 0) IN
         [err |-> \E p \in Listed(sel) : Lookup(layers, p[1], p[2]) = 0,
          ds  |-> [i \in 1..Len(hit) |->
                     LET nm == hit[i].names[Len(hit[i].names)] IN
                     [category |-> hit[i].category,
                      entries |-> <<[name |-> nm,
                                     id |-> Lookup(layers, hit[i].category, nm)]>>]]]

-----------------------------------------------------------------------------
(* OnSSTOVE: construction and registration *)

\* the record of a call: the method, whether it returned ("ok") or raised
\* ("error"), its datasets argument, its base_layer argument and the
\* (category, name) pairs its loop went through
NoSel == [all |-> FALSE, map |-> << >>]
Call(op, outcome, sel, base, visited) ==
    [op |-> op, outcome |-> outcome, sel |-> sel, base |-> base,
     visited |-> visited]

\* OnSSTOVE(): project_crs and cell_size default to None
PipelineInit ==
    /\ layers = << >>
    /\ objs = << >>
    /\ project_crs = "None"
    /\ cell_size = << >>
    /\ base_layer = 0
    /\ mask_layer = << >>
    /\ lastCall = Call("init", "ok", NoSel, FALSE, {})
    /\ csv = << >>
    /\ specs = << >>
    /\ techs = << >>
    /\ gdf = << >>
    /\ cells = << >>
    /\ technology = << >>
    /\ project_life = << >>
    /\ frame = << >>

\* lines 131-146 of add_layer: the grid the incoming base raster fixes, and
\* the raster itself, reprojected when its CRS differs from the project's or
\* its cell width differs from the project's by more than 1 %.
\* line 133 without the test of line 132
BaseCellSizeAlways(l) == <<l.a, Abs(l.b)>>
BaseCellSize(l) == IF cell_size = << >> THEN <<l.a, Abs(l.b)>> ELSE cell_size
BaseCrs(l)      == IF project_crs = "None" THEN l.crs ELSE project_crs
ConformBase(l) ==
    IF l.crs # BaseCrs(l) \/ 100 * Abs(BaseCellSize(l)[1] - l.a) > l.a
    THEN Reproject(l, BaseCrs(l), BaseCellSize(l))
    ELSE l

\* add_layer(category, name, layer_path, layer_type, base_layer=...)
AddLayer(category, name, path, layer_type, base) ==
    /\ Len(objs) < MaxAdds
    /\ IF layer_type = "vector"
       THEN /\ objs' = Append(objs, NewVector(category, name, path))
            /\ layers' = Register(layers, category, name, Len(objs) + 1)
            /\ lastCall' = Call("add_layer", "ok", NoSel, base, {})
            /\ UNCHANGED <<project_crs, cell_size, base_layer>>
       ELSE IF layer_type = "raster"
       THEN /\ IF base
               THEN /\ cell_size' = BaseCellSize(NewRaster(category, name, path))
                    /\ project_crs' = BaseCrs(NewRaster(category, name, path))
                    /\ objs' = Append(objs, ConformBase(NewRaster(category, name, path)))
                    /\ base_layer' = Len(objs) + 1
               ELSE /\ objs' = Append(objs, NewRaster(category, name, path))
                    /\ UNCHANGED <<project_crs, cell_size, base_layer>>
            /\ layers' = Register(layers, category, name, Len(objs) + 1)
            /\ lastCall' = Call("add_layer", "ok", NoSel, base, {})
       ELSE \* `layer` is never bound: UnboundLocalError at line 150
            /\ lastCall' = Call("add_layer", "error", NoSel, base, {})
            /\ UNCHANGED <<layers, objs, project_crs, cell_size, base_layer>>
    /\ UNCHANGED mask_layer

\* layer.friction = RasterLayer(...): the nested friction raster of a layer
SetFriction(id, path) ==
    /\ id \in 1..Len(objs)
    /\ ~HasFriction(objs[id])
    /\ Cardinality({i \in 1..Len(objs) : HasFriction(objs[i])}) < MaxFrictions
    /\ objs' = [objs EXCEPT ![id].friction =
                    <<NewRaster(objs[id].category, objs[id].name, path)>>]
    /\ lastCall' = Call("set_friction", "ok", NoSel, FALSE, {})
    /\ UNCHANGED <<layers, project_crs, cell_size, base_layer, mask_layer>>

\* add_mask_layer(name, layer_path): the boundary is read, then converted to
\* the project CRS when it differs (to_crs(None) raises ValueError).
AddMaskLayer(crs) ==
    /\ IF crs = project_crs
       THEN /\ mask_layer' = <<[crs |-> crs]>>
            /\ lastCall' = Call("add_mask_layer", "ok", NoSel, FALSE, {})
       ELSE IF project_crs = "None"
       THEN /\ mask_layer' = <<[crs |-> crs]>>
            /\ lastCall' = Call("add_mask_layer", "error", NoSel, FALSE, {})
       ELSE /\ mask_layer' = <<[crs |-> project_crs]>>
            /\ lastCall' = Call("add_mask_layer", "ok", NoSel, FALSE, {})
    /\ UNCHANGED <<layers, objs, project_crs, cell_size, base_layer>>

-----------------------------------------------------------------------------
(* OnSSTOVE: the pipeline operations *)

\* the objects the loop `for category, layers in datasets.items(): for name,
\* layer in layers.items()` goes through
IdsOf(ds) == {it.id : it \in ItemsOf(ds)}

\* the loop applied: every object of ds is replaced by its image in new
Sweep(ds, new) ==
    [i \in 1..Len(objs) |-> IF i \in IdsOf(ds) THEN new[i] ELSE objs[i]]

\* layer.mask(...), then layer.friction.mask(...) when there is a friction raster
MaskBoth(l) ==
    IF HasFriction(l) THEN [Mask(l) EXCEPT !.friction = <<Mask(l.friction[1])>>]
    ELSE Mask(l)

\* layer.reproject(crs, ...), then layer.friction.reproject(crs, ...)
ReprojectBoth(l, crs) ==
    IF HasFriction(l)
    THEN [Reproject(l, crs, << >>) EXCEPT
             !.friction = <<Reproject(l.friction[1], crs, << >>)>>]
    ELSE Reproject(l, crs, << >>)

\* layer.friction.align(base) when there is a friction raster
AlignFriction(l, base) ==
    IF HasFriction(l) THEN [l EXCEPT !.friction = <<Align(l.friction[1], base)>>]
    ELSE l

Failed(op, sel) ==
    /\ lastCall' = Call(op, "error", sel, FALSE, {})
    /\ UNCHANGED <<layers, objs, project_crs, cell_size, base_layer, mask_layer>>

Done(op, sel, ds, newObjs) ==
    /\ objs' = newObjs
    /\ lastCall' = Call(op, "ok", sel, FALSE, PairsOf(ds))
    /\ UNCHANGED <<layers, project_crs, cell_size, base_layer, mask_layer>>

\* mask_layers without the test of line 181
MaskLayersUnguarded(sel) ==
    IF GetLayers(sel).err THEN Failed("mask_layers", sel)
    ELSE Done("mask_layers", sel, GetLayers(sel).ds,
              Sweep(GetLayers(sel).ds, [i \in 1..Len(objs) |-> MaskBoth(objs[i])]))

\* mask_layers(datasets)
MaskLayers(sel) ==
    IF mask_layer = << >> THEN Failed("mask_layers", sel)
    ELSE IF GetLayers(sel).err THEN Failed("mask_layers", sel)
    ELSE Done("mask_layers", sel, GetLayers(sel).ds,
              Sweep(GetLayers(sel).ds, [i \in 1..Len(objs) |-> MaskBoth(objs[i])]))

\* the body of the loop of align_layers for one layer (name is layer.name,
\* the key it is registered under)
AlignStep(l, base) ==
    IF l.kind = "vector" THEN AlignFriction(l, base)
    ELSE IF l.name # base.name THEN AlignFriction(Align(l, base), base)
    ELSE AlignFriction(l, base)

\* a layer for which the loop body reads self.base_layer.name or .path
NeedsBase(l) == l.kind = "raster" \/ HasFriction(l)

\* align_layers(datasets)
AlignLayers(sel) ==
    IF GetLayers(sel).err THEN Failed("align_layers", sel)
    ELSE IF base_layer = 0
            /\ \E i \in IdsOf(GetLayers(sel).ds) : NeedsBase(objs[i])
    THEN Failed("align_layers", sel)
    ELSE Done("align_layers", sel, GetLayers(sel).ds,
              IF base_layer = 0 THEN objs
              ELSE Sweep(GetLayers(sel).ds,
                         [i \in 1..Len(objs) |-> AlignStep(objs[i], objs[base_layer])]))

\* reproject_layers(datasets)
ReprojectLayers(sel) ==
    IF GetLayers(sel).err THEN Failed("reproject_layers", sel)
    ELSE IF project_crs = "None" /\ IdsOf(GetLayers(sel).ds) # {}
    THEN Failed("reproject_layers", sel)
    ELSE Done("reproject_layers", sel, GetLayers(sel).ds,
              Sweep(GetLayers(sel).ds,
                    [i \in 1..Len(objs) |-> ReprojectBoth(objs[i], project_crs)]))

\* get_distance_rasters(datasets): the distance rasters are written under
\* output_path by layer.get_distance_raster, for the layer and its friction
GetDistanceRasters(sel) ==
    IF GetLayers(sel).err THEN Failed("get_distance_rasters", sel)
    ELSE IF base_layer = 0 /\ IdsOf(GetLayers(sel).ds) # {}
    THEN Failed("get_distance_rasters", sel)
    ELSE Done("get_distance_rasters", sel, GetLayers(sel).ds,
              objs)

\* normalize_rasters(datasets)
NormalizeRasters(sel) ==
    IF GetLayers(sel).err THEN Failed("normalize_rasters", sel)
    ELSE Done("normalize_rasters", sel, GetLayers(sel).ds,
              objs)

\* save_datasets(datasets)
SaveDatasets(sel) ==
    IF GetLayers(sel).err THEN Failed("save_datasets", sel)
    ELSE Done("save_datasets", sel, GetLayers(sel).ds,
              objs)

PipelineNext ==
    \/ \E k \in Keys, p \in RasterPaths, b \in BOOLEAN :
          AddLayer(k[1], k[2], p, "raster", b) /\ UNCHANGED nonPipeVars
    \/ \E p \in VectorPaths :
          AddLayer("demand", "roads", p, "vector", FALSE) /\ UNCHANGED nonPipeVars
    \/ \E p \in VectorPaths :
          AddLayer("supply", "population", p, "table", FALSE) /\ UNCHANGED nonPipeVars
    \/ \E id \in 1..MaxAdds, p \in FrictionPaths :
          SetFriction(id, p) /\ UNCHANGED nonPipeVars
    \/ \E crs \in MaskCRSs : AddMaskLayer(crs) /\ UNCHANGED nonPipeVars
    \/ \E sel \in Selections : MaskLayers(sel) /\ UNCHANGED nonPipeVars
    \/ \E sel \in Selections : AlignLayers(sel) /\ UNCHANGED nonPipeVars
    \/ \E sel \in Selections : ReprojectLayers(sel) /\ UNCHANGED nonPipeVars
    \/ \E sel \in Selections : GetDistanceRasters(sel) /\ UNCHANGED nonPipeVars
    \/ \E sel \in Selections : NormalizeRasters(sel) /\ UNCHANGED nonPipeVars
    \/ \E sel \in Selections : SaveDatasets(sel) /\ UNCHANGED nonPipeVars

Spec == PipelineInit /\ [][PipelineNext]_vars

-----------------------------------------------------------------------------
(* Python values read from configuration rows *)

\* a value with its Python type; numbers are the exact rational num/den
IntVal(n)      == [type |-> "int", num |-> n, den |-> 1, text |-> ""]
FloatVal(n, d) == [type |-> "float", num |-> n, den |-> d, text |-> ""]
StrVal(t)      == [type |-> "str", num |-> 0, den |-> 1, text |-> t]
NoneVal        == [type |-> "None", num |-> 0, den |-> 1, text |-> ""]
\* an attribute that was never assigned (reading it raises AttributeError)
Unset          == [type |-> "unset", num |-> 0, den |-> 1, text |-> ""]

IsNumber(v) == v.type \in {"int", "float"}

\* the texts int(...) accepts, and the ones float(...) accepts
IsIntText(t)   == t \in {"5", "10"}
IsFloatText(t) == t \in {"5", "10", "2.5"}

\* the number a numeric text denotes, as <<numerator, denominator>>
ParseNum(t) ==
    CASE t = "5"   -> <<5, 1>>
      [] t = "10"  -> <<10, 1>>
      [] t = "2.5" -> <<5, 2>>

\* lines 66-73 and 88-95: the Value converted according to data_type;
\* err when int()/float() raises ValueError or the data_type is not recognised
Convert(data_type, t) ==
    IF data_type = "int"
    THEN IF IsIntText(t) THEN [err |-> FALSE, val |-> IntVal(ParseNum(t)[1])]
         ELSE [err |-> TRUE, val |-> NoneVal]
    ELSE IF data_type = "float"
    THEN IF IsFloatText(t)
         THEN [err |-> FALSE, val |-> FloatVal(ParseNum(t)[1], ParseNum(t)[2])]
         ELSE [err |-> TRUE, val |-> NoneVal]
    ELSE IF data_type = "string" THEN [err |-> FALSE, val |-> StrVal(t)]
    ELSE [err |-> TRUE, val |-> NoneVal]

\* d[k] = v on a dict (a function on the set of its keys)
DictPut(d, k, v) == [x \in DOMAIN d \cup {k} |-> IF x = k THEN v ELSE d[x]]
EmptyDict == [x \in {} |-> NoneVal]

-----------------------------------------------------------------------------
(* Technology (technology.py) *)

\* Technology(): the defaults of __init__; start_year and end_year are not
\* attributes until something assigns them
NewTechnology ==
    [name |-> NoneVal, carbon_intensity |-> IntVal(0), energy_content |-> IntVal(0),
     tech_life |-> IntVal(0), fuel_cost |-> IntVal(0), inv_cost |-> IntVal(0),
     infra_cost |-> IntVal(0), om_cost |-> IntVal(0), time_of_cooking |-> IntVal(0),
     efficiency |-> IntVal(0), pm25 |-> IntVal(0),
     start_year |-> Unset, end_year |-> Unset]

\* tech[idx] = value: __setitem__; err is the KeyError of the last branch
SetItem(tech, idx, value) ==
    IF idx = "name" THEN [err |-> FALSE, tech |-> [tech EXCEPT !.name = value]]
    ELSE IF idx = "energy_content"
    THEN [err |-> FALSE, tech |-> [tech EXCEPT !.energy_content = value]]
    ELSE IF idx = "carbon_intensity"
    THEN [err |-> FALSE, tech |-> [tech EXCEPT !.carbon_intensity = value]]
    ELSE IF idx = "fuel_cost"
    THEN [err |-> FALSE, tech |-> [tech EXCEPT !.fuel_cost = value]]
    ELSE IF idx = "tech_life"
    THEN [err |-> FALSE, tech |-> [tech EXCEPT !.tech_life = value]]
    ELSE IF idx = "inv_cost"
    THEN [err |-> FALSE, tech |-> [tech EXCEPT !.inv_cost = value]]
    ELSE IF idx = "infra_cost"
    THEN [err |-> FALSE, tech |-> [tech EXCEPT !.infra_cost = value]]
    ELSE IF idx = "om_cost"
    THEN [err |-> FALSE, tech |-> [tech EXCEPT !.om_cost = value]]
    ELSE IF idx = "time_of_cooking"
    THEN [err |-> FALSE, tech |-> [tech EXCEPT !.time_of_cooking = value]]
    ELSE IF idx = "efficiency"
    THEN [err |-> FALSE, tech |-> [tech EXCEPT !.efficiency = value]]
    ELSE IF idx = "pm25"
    THEN [err |-> FALSE, tech |-> [tech EXCEPT !.pm25 = value]]
    ELSE [err |-> TRUE, tech |-> tech]

-----------------------------------------------------------------------------
(* OnSSTOVE: reading the configuration files *)

MaxRows == 2      \* rows of a configuration file

Row(fuel, param, value, data_type) ==
    [Fuel |-> fuel, Param |-> param, Value |-> value, data_type |-> data_type]

\* the rows a configuration file is made of
ConfigRows ==
    {Row("lpg", "tech_life", "5", "int"),
     Row("biogas", "tech_life", "2.5", "float"),
     Row("lpg", "tech_life", "2.5", "int"),
     Row("lpg", "inv_cost", "", "bool"),
     Row("lpg", "inv_cost", "5", "bool"),
     Row("biogas", "Urban_start", "2.5", "float"),
     Row("lpg", "tech_life", "10", "string"),
     Row("biogas", "inv_cost", "", "int")}

ConfCall(op, outcome) == [op |-> op, outcome |-> outcome]

ConfigInit ==
    /\ layers = << >>
    /\ objs = << >>
    /\ project_crs = "None"
    /\ cell_size = << >>
    /\ base_layer = 0
    /\ mask_layer = << >>
    /\ csv = << >>
    /\ specs = << >>
    /\ techs = << >>
    /\ gdf = << >>
    /\ cells = << >>
    /\ technology = << >>
    /\ project_life = << >>
    /\ frame = << >>
    /\ lastCall = ConfCall("init", "ok")

\* the file at path_to_config gets one more row
AppendRow(row) ==
    /\ Len(csv) < MaxRows
    /\ csv' = Append(csv, row)
    /\ lastCall' = ConfCall("write_row", "ok")
    /\ UNCHANGED <<specs, techs>>

\* path_to_config names another (empty) file
NewFile ==
    /\ csv # << >>
    /\ csv' = << >>
    /\ lastCall' = ConfCall("new_file", "ok")
    /\ UNCHANGED <<specs, techs>>

RECURSIVE ScenarioLoop(_, _, _)
\* lines 64-73: the loop over the rows from row i on, filling config
ScenarioLoop(rows, i, config) ==
    IF i > Len(rows) THEN [err |-> FALSE, config |-> config]
    ELSE IF rows[i].Value = "" THEN ScenarioLoop(rows, i + 1, config)
    ELSE IF Convert(rows[i].data_type, rows[i].Value).err
    THEN [err |-> TRUE, config |-> config]
    ELSE ScenarioLoop(rows, i + 1,
             DictPut(config, rows[i].Param,
                     Convert(rows[i].data_type, rows[i].Value).val))

\* read_scenario_data storing what was read so far when a row raises
ReadScenarioDataPartial ==
    /\ specs' = <<ScenarioLoop(csv, 1, EmptyDict).config>>
    /\ lastCall' = ConfCall("read_scenario_data",
                        IF ScenarioLoop(csv, 1, EmptyDict).err THEN "error" ELSE "ok")
    /\ UNCHANGED <<csv, techs>>

\* read_scenario_data(path_to_config)
ReadScenarioData ==
    IF ScenarioLoop(csv, 1, EmptyDict).err
    THEN /\ lastCall' = ConfCall("read_scenario_data", "error")
         /\ UNCHANGED <<csv, specs, techs>>
    ELSE /\ specs' = <<ScenarioLoop(csv, 1, EmptyDict).config>>
         /\ lastCall' = ConfCall("read_scenario_data", "ok")
         /\ UNCHANGED <<csv, techs>>

\* lines 86-87: techs[Fuel] = Technology() when the fuel is new
WithFuel(ts, fuel) ==
    IF fuel \in DOMAIN ts THEN ts ELSE DictPut(ts, fuel, NewTechnology)

RECURSIVE TechLoop(_, _, _)
\* lines 84-95: the loop over the rows from row i on, filling techs
TechLoop(rows, i, ts) ==
    IF i > Len(rows) THEN [err |-> FALSE, techs |-> ts]
    ELSE IF rows[i].Value = "" THEN TechLoop(rows, i + 1, ts)
    ELSE IF Convert(rows[i].data_type, rows[i].Value).err
    THEN [err |-> TRUE, techs |-> WithFuel(ts, rows[i].Fuel)]
    ELSE LET t2  == WithFuel(ts, rows[i].Fuel)
             set == SetItem(t2[rows[i].Fuel], rows[i].Param,
                            Convert(rows[i].data_type, rows[i].Value).val)
         IN IF set.err THEN [err |-> TRUE, techs |-> t2]
            ELSE TechLoop(rows, i + 1, DictPut(t2, rows[i].Fuel, set.tech))

\* read_tech_data(path_to_config)
ReadTechData ==
    IF TechLoop(csv, 1, EmptyDict).err
    THEN /\ lastCall' = ConfCall("read_tech_data", "error")
         /\ UNCHANGED <<csv, specs, techs>>
    ELSE /\ techs' = <<TechLoop(csv, 1, EmptyDict).techs>>
         /\ lastCall' = ConfCall("read_tech_data", "ok")
         /\ UNCHANGED <<csv, specs>>

ConfigNext ==
    \/ \E row \in ConfigRows : AppendRow(row) /\ UNCHANGED nonConfVars
    \/ NewFile /\ UNCHANGED nonConfVars
    \/ ReadScenarioData /\ UNCHANGED nonConfVars
    \/ ReadTechData /\ UNCHANGED nonConfVars

ConfigSpec == ConfigInit /\ [][ConfigNext]_vars

-----------------------------------------------------------------------------
(* OnSSTOVE: the point table *)

\* an exact rational, the denominator positive
Frac(n, d) == [num |-> n, den |-> d]
FracGT(x, y) == x.num * y.den > y.num * x.den

RECURSIVE SumNum(_, _)
\* the sum of the numerators of the fractions vals[i..]
SumNum(vals, i) == IF i > Len(vals) THEN 0 ELSE vals[i].num + SumNum(vals, i + 1)

\* a raster of the analysis: its name and its cells in row-major order,
\* a negative value standing for NaN
Raster(name, grid) == [name |-> name, grid |-> grid]

\* the population rasters population_to_dataframe is given
PopLayers ==
    {Raster("pop_a", <<6000, -1, 60000>>),
     Raster("pop_b", <<-1, 6000, 60000>>),
     Raster("pop_c", <<6000, 7000, 60000>>)}

\* the rasters raster_to_dataframe is given
SampleLayers ==
    {Raster("Population", <<6000, 7000, 60000>>),
     Raster("roads", <<10, 20, 30>>)}

Methods == {"sample", "read", "nearest"}

\* np.where(~np.isnan(layer.layer)): the cells holding a value, in row-major order
ValidCells(grid) ==
    SelectSeq([c \in 1..Len(grid) |-> c], LAMBDA c : grid[c] >= 0)

\* a column: its values, and the raster grid they were taken from (<< >> for
\* a column that is not taken from a raster)
Column(src, vals) == [src |-> src, vals |-> vals]

\* the names `from .raster import *` binds in onsstove.py, of those the
\* methods below read: the sampling helper and rasterio, no `clusters`
StarImported == {"sample_raster", "rasterio"}

\* layer.layer[rows, cols]: the value of the raster at each of the given cells
ValuesAt(grid, at) == [i \in 1..Len(at) |-> Frac(grid[at[i]], 1)]

HasCol(t, name) == name \in DOMAIN t.cols
NRows(t) == Len(t.cols["geometry"].vals)
\* self.gdf[name] = ...
SetCol(t, name, col) == [t EXCEPT !.cols = DictPut(@, name, col)]

\* the cell each point of the table lies in (its geometry is the cell centre)
PointCells(t) == [i \in 1..NRows(t) |-> t.cols["geometry"].vals[i].num]

\* sample_raster(layer.path, self.gdf): the value of the raster at each point
sample_raster(grid, t) == ValuesAt(grid, PointCells(t))

\* GeoDataFrame({'geometry': points_from_xy(x, y), 'Pop': layer.layer[rows, cols]})
NewTable(grid) ==
    [cols |-> DictPut(DictPut(EmptyDict, "geometry",
                              Column(<< >>, [i \in 1..Len(ValidCells(grid)) |->
                                                Frac(ValidCells(grid)[i], 1)])),
                      "Pop", Column(grid, ValuesAt(grid, ValidCells(grid))))]

TabCall(op, outcome, arg, iters, shares, dropped) ==
    [op |-> op, outcome |-> outcome, arg |-> arg, iters |-> iters,
     shares |-> shares, dropped |-> dropped]

\* the scenario specs a run is made with
Scenario(population_start_year, urban_start) ==
    DictPut(DictPut(EmptyDict, "Population_start_year", population_start_year),
            "Urban_start", urban_start)

SpecChoices ==
    {<< >>,
     <<Scenario(IntVal(1000), FloatVal(1, 2))>>,
     <<Scenario(IntVal(2000), IntVal(1))>>,
     <<Scenario(IntVal(2000), IntVal(2))>>}

\* OnSSTOVE(cell_size=...) followed by read_scenario_data
TableInit ==
    /\ layers = << >>
    /\ objs = << >>
    /\ project_crs = "None"
    /\ cell_size \in {<< >>, <<1, 1>>}
    /\ base_layer = 0
    /\ mask_layer = << >>
    /\ csv = << >>
    /\ specs \in SpecChoices
    /\ techs = << >>
    /\ gdf = << >>
    /\ cells = << >>
    /\ technology = << >>
    /\ project_life = << >>
    /\ frame = << >>
    /\ lastCall = TabCall("init", "ok", "", 0, << >>, {})

\* the columns of the table in gdf, {} when there is no table
ColsOf(g) == IF g = << >> THEN {} ELSE DOMAIN g[1].cols
\* the columns raster_to_dataframe added
SampledCols(g) ==
    {c \in ColsOf(g) \ {"geometry", "Pop"} : g[1].cols[c].src # << >>}

\* population_to_dataframe updating the existing table instead of building one
PopulationToDataframeInPlace(layer) ==
    /\ cells' = ValidCells(layer.grid)
    /\ "rasterio" \in StarImported
    /\ gdf' = IF gdf = << >> THEN <<NewTable(layer.grid)>>
              ELSE <<[cols |-> [c \in ColsOf(gdf) |->
                                   IF c \in {"geometry", "Pop"}
                                   THEN NewTable(layer.grid).cols[c]
                                   ELSE gdf[1].cols[c]]]>>
    /\ lastCall' = TabCall("population_to_dataframe", "ok", layer.name, 0, << >>, {})

\* population_to_dataframe(layer)
PopulationToDataframe(layer) ==
    /\ cells' = ValidCells(layer.grid)
    /\ IF "rasterio" \in StarImported
       THEN /\ gdf' = <<NewTable(layer.grid)>>
            /\ lastCall' = TabCall("population_to_dataframe", "ok", layer.name, 0,
                                   << >>, SampledCols(gdf))
       ELSE /\ gdf' = gdf
            /\ lastCall' = TabCall("population_to_dataframe", "error", layer.name, 0,
                                   << >>, {})

\* raster_to_dataframe(layer, method)
RasterToDataframe(layer, method) ==
    IF method = "sample"
    THEN IF gdf = << >> \/ "sample_raster" \notin StarImported
         THEN /\ lastCall' = TabCall("raster_to_dataframe", "error", method, 0, << >>, {})
              /\ UNCHANGED <<gdf, cells>>
         ELSE /\ gdf' = <<SetCol(gdf[1], layer.name,
                           Column(layer.grid, sample_raster(layer.grid, gdf[1])))>>
              /\ lastCall' = TabCall("raster_to_dataframe", "ok", method, 0, << >>, {})
              /\ UNCHANGED cells
    ELSE IF method = "read"
    THEN IF cells = << >>
         THEN /\ lastCall' = TabCall("raster_to_dataframe", "error", method, 0, << >>, {})
              /\ UNCHANGED <<gdf, cells>>
         ELSE /\ gdf' = <<SetCol(gdf[1], layer.name,
                           Column(layer.grid, ValuesAt(layer.grid, cells)))>>
              /\ lastCall' = TabCall("raster_to_dataframe", "ok", method, 0, << >>, {})
              /\ UNCHANGED cells
    ELSE /\ lastCall' = TabCall("raster_to_dataframe", "ok", method, 0, << >>, {})
         /\ UNCHANGED <<gdf, cells>>

\* specs[key] is there and is a number
HasNumber(key) ==
    /\ specs # << >>
    /\ key \in DOMAIN specs[1]
    /\ IsNumber(specs[1][key])

\* calibrate_pop(): Calibrated_pop = Pop * (Population_start_year / sum of Pop);
\* a zero denominator stands for numpy's inf and nan
CalibratePop ==
    IF gdf = << >> \/ ~HasNumber("Population_start_year")
    THEN /\ lastCall' = TabCall("calibrate_pop", "error", "", 0, << >>, {})
         /\ UNCHANGED <<gdf, cells>>
    ELSE /\ gdf' = <<SetCol(gdf[1], "Calibrated_pop",
                      Column(<< >>,
                        [i \in 1..NRows(gdf[1]) |->
                           Frac(gdf[1].cols["Pop"].vals[i].num
                                   * specs[1]["Population_start_year"].num,
                                SumNum(gdf[1].cols["Pop"].vals, 1)
                                   * specs[1]["Population_start_year"].den)]))>>
         /\ lastCall' = TabCall("calibrate_pop", "ok", "", 0, << >>, {})
         /\ UNCHANGED cells

-----------------------------------------------------------------------------
(* OnSSTOVE.calibrate_urban *)

IterationCap == 500

\* abs(x - y) > 0.01
FarFrom(x, y) ==
    100 * Abs(x.num * y.den - y.num * x.den) > x.den * y.den

\* line 283: self.gdf["IsUrban"] = 0
ZeroIsUrban(t) ==
    SetCol(t, "IsUrban", Column(<< >>, [i \in 1..NRows(t) |-> Frac(0, 1)]))

\* self.gdf["Population"] / self.cell_size: the tuple divides element by
\* element, which needs as many rows as the tuple has entries (None, or
\* another number of rows, raises)
CanDivide(t) == Len(cell_size) = NRows(t)
Density(t, i) ==
    Frac(t.cols["Population"].vals[i].num,
         t.cols["Population"].vals[i].den * cell_size[i])

\* lines 284-287: IsUrban = class where Population > minPop * factor and
\* Population / cell_size > minDensity * factor
Tier(t, factor, minPop, minDensity, class) ==
    SetCol(t, "IsUrban",
        Column(<< >>,
          [i \in 1..NRows(t) |->
             IF /\ FracGT(t.cols["Population"].vals[i],
                          Frac(minPop * factor.num, factor.den))
                /\ FracGT(Density(t, i), Frac(minDensity * factor.num, factor.den))
             THEN Frac(class, 1)
             ELSE t.cols["IsUrban"].vals[i]]))

ClustersBound == "clusters" \in StarImported

RECURSIVE SumWhere(_, _, _, _)
\* the sum of the numerators of vals[i..] over the rows whose class is at
\* least minClass (the values of a column share one denominator)
SumWhere(vals, class, minClass, i) ==
    IF i > Len(vals) THEN 0
    ELSE (IF class[i].num >= minClass THEN vals[i].num ELSE 0)
         + SumWhere(vals, class, minClass, i + 1)

\* line 289: self.gdf.loc[clusters["IsUrban"] > 1, "Calibrated_pop"].sum();
\* calibrate_urban binds no `clusters`, nor does the module itself, so that
\* evaluating the row mask raises NameError
PopUrb(t) ==
    IF ~ClustersBound \/ ~HasCol(t, "Calibrated_pop")
    THEN [err |-> TRUE, sum |-> Frac(0, 1)]
    ELSE [err |-> FALSE,
          sum |-> Frac(SumWhere(t.cols["Calibrated_pop"].vals,
                                t.cols["IsUrban"].vals, 2, 1),
                       t.cols["Calibrated_pop"].vals[1].den)]

CuResult(outcome, g, i, shares) ==
    [outcome |-> outcome, gdf |-> g, iters |-> i, shares |-> shares]

RECURSIVE CalibrateLoop(_, _, _, _, _)
\* lines 281-299: the while loop, entered with i iterations done
CalibrateLoop(g, i, factor, urban_modelled, shares) ==
    IF ~FarFrom(urban_modelled, specs[1]["Urban_start"])
    THEN CuResult("ok", g, i, shares)
    ELSE IF g = << >> THEN CuResult("error", g, i, shares)
    ELSE IF ~HasCol(g[1], "Population") \/ ~CanDivide(g[1])
    THEN CuResult("error", <<ZeroIsUrban(g[1])>>, i, shares)
    ELSE LET t == Tier(Tier(ZeroIsUrban(g[1]), factor, 5000, 350, 1),
                       factor, 50000, 1500, 2)
         IN IF PopUrb(t).err
            THEN CuResult("error", <<t>>, i, shares)
            ELSE LET share == Frac(PopUrb(t).sum.num
                                      * specs[1]["Population_start_year"].den,
                                   PopUrb(t).sum.den
                                      * specs[1]["Population_start_year"].num)
                     next == IF FracGT(share, specs[1]["Urban_start"])
                             THEN Frac(factor.num * 11, factor.den * 10)
                             ELSE Frac(factor.num * 9, factor.den * 10)
                 IN IF i + 1 > IterationCap
                    THEN CuResult("ok", <<t>>, i + 1, Append(shares, share))
                    ELSE CalibrateLoop(<<t>>, i + 1, next, share,
                                       Append(shares, share))

\* calibrate_urban(): urban_modelled = 2, factor = 1, i = 0, then the loop
CalibrateUrban ==
    IF ~(specs # << >> /\ "Population_start_year" \in DOMAIN specs[1])
       \/ ~HasNumber("Urban_start")
    THEN /\ lastCall' = TabCall("calibrate_urban", "error", "", 0, << >>, {})
         /\ UNCHANGED <<gdf, cells>>
    ELSE LET r == CalibrateLoop(gdf, 0, Frac(1, 1), Frac(2, 1), << >>) IN
         /\ gdf' = r.gdf
         /\ lastCall' = TabCall("calibrate_urban", r.outcome, "", r.iters, r.shares, {})
         /\ UNCHANGED cells

nonTableVars == <<pipeVars, confVars, econVars>>

TableNext ==
    \/ \E layer \in PopLayers :
          PopulationToDataframe(layer) /\ UNCHANGED nonTableVars
    \/ \E layer \in SampleLayers, method \in Methods :
          RasterToDataframe(layer, method) /\ UNCHANGED nonTableVars
    \/ CalibratePop /\ UNCHANGED nonTableVars
    \/ CalibrateUrban /\ UNCHANGED nonTableVars

TableSpec == TableInit /\ [][TableNext]_vars

-----------------------------------------------------------------------------
(* technology.py: the discounted investment series *)

MaxHorizon == 2   \* end_year - start_year is at most this
MaxLife == 2      \* tech_life is at most this

Years == {IntVal(2020 + k) : k \in 0..MaxHorizon}
Lives == {IntVal(k) : k \in 0..MaxLife}
\* the horizons of a run: the short ones, and 2020 to 2030
YearPairs ==
    {p \in Years \X Years : p[1].num <= p[2].num} \cup {<<IntVal(2020), IntVal(2030)>>}
InvCosts == {IntVal(0), IntVal(100)}
Rates == {IntVal(0), FloatVal(1, 2)}
Efficiencies == {IntVal(0), IntVal(1)}
EnergyContents == {IntVal(0), IntVal(1)}
Pm25s == {IntVal(0), IntVal(10)}
Meals == {IntVal(3)}

\* the bindings `from .raster import *` may leave for the name project_life
\* in technology.py: none, or a number
ProjectLifeGlobals == {<< >>} \cup {<<n>> : n \in 1..MaxHorizon} \cup {<<10>>}

FracDiv(x, y) == Frac(x.num * y.den, x.den * y.num)

RECURSIVE Pow(_, _)
\* base ** k for k >= 0
Pow(base, k) ==
    IF k = 0 THEN Frac(1, 1)
    ELSE LET rest == Pow(base, k - 1)
         IN Frac(base.num * rest.num, base.den * rest.den)

TechCall(op, outcome, arg, series, proj_life) ==
    [op |-> op, outcome |-> outcome, arg |-> arg, series |-> series,
     proj_life |-> proj_life]

\* tech = Technology(), in a module whose global project_life is bound or not
TechInit ==
    /\ layers = << >>
    /\ objs = << >>
    /\ project_crs = "None"
    /\ cell_size = << >>
    /\ base_layer = 0
    /\ mask_layer = << >>
    /\ csv = << >>
    /\ specs = << >>
    /\ techs = << >>
    /\ gdf = << >>
    /\ cells = << >>
    /\ technology = <<NewTechnology>>
    /\ project_life \in ProjectLifeGlobals
    /\ frame = << >>
    /\ lastCall = TechCall("Technology", "ok", "", << >>, 0)

\* tech[idx] = value
TechSetItem(idx, value) ==
    /\ technology' = <<SetItem(technology[1], idx, value).tech>>
    /\ lastCall' = TechCall("__setitem__",
                            IF SetItem(technology[1], idx, value).err
                            THEN "error" ELSE "ok",
                            idx, <<value>>, 0)
    /\ UNCHANGED <<project_life, frame>>

\* tech.start_year = value; tech.end_year = value (plain attributes: neither
\* __init__ nor __setitem__ knows them)
SetYears(start_year, end_year) ==
    /\ technology' = <<[technology[1] EXCEPT !.start_year = start_year,
                                             !.end_year = end_year]>>
    /\ lastCall' = TechCall("set_years", "ok", "", << >>, 0)
    /\ UNCHANGED <<project_life, frame>>

\* discount_factor(discount_rate_tech, tech): the factors (1 + r) ** year for
\* year in arange(proj_life), and proj_life
discount_factor(discount_rate_tech, t) ==
    IF t.start_year = Unset \/ t.end_year = Unset
    THEN [err |-> TRUE, factors |-> << >>, proj_life |-> 0]
    ELSE LET proj_life == IF t.start_year.num = t.end_year.num THEN 1
                          ELSE t.end_year.num - t.start_year.num
         IN [err |-> FALSE,
             factors |-> [year \in 1..proj_life |->
                            Pow(Frac(discount_rate_tech.den + discount_rate_tech.num,
                                     discount_rate_tech.den), year - 1)],
             proj_life |-> proj_life]

\* numpy's investments / discount_rate: element by element, an array of one
\* element being stretched to the length of the other
Divide(xs, ys) ==
    IF Len(xs) = Len(ys)
    THEN [err |-> FALSE, series |-> [k \in 1..Len(xs) |-> FracDiv(xs[k], ys[k])]]
    ELSE IF Len(xs) = 1
    THEN [err |-> FALSE, series |-> [k \in 1..Len(ys) |-> FracDiv(xs[1], ys[k])]]
    ELSE IF Len(ys) = 1
    THEN [err |-> FALSE, series |-> [k \in 1..Len(xs) |-> FracDiv(xs[k], ys[1])]]
    ELSE [err |-> TRUE, series |-> << >>]

\* discounted_inv(discount_rate_tech, tech)
discounted_inv(discount_rate_tech, t) ==
    LET df == discount_factor(discount_rate_tech, t)
        NoSeries == [err |-> TRUE, series |-> << >>]
    IN IF df.err THEN NoSeries
       \* line 337: np.zeros(project_life) reads the global, not proj_life
       ELSE IF project_life = << >> THEN NoSeries
       ELSE LET zeros == [k \in 1..project_life[1] |-> Frac(0, 1)]
                first == [zeros EXCEPT ![1] = Frac(t.inv_cost.num, t.inv_cost.den)]
            IN IF df.proj_life > t.tech_life.num
               THEN IF t.tech_life.num >= Len(first) THEN NoSeries
                    ELSE Divide([first EXCEPT ![t.tech_life.num + 1] =
                                    Frac(t.inv_cost.num, t.inv_cost.den)],
                                df.factors)
               ELSE Divide(first, df.factors)

NoSeries == [err |-> TRUE, series |-> << >>]

FracMul(x, y) == Frac(x.num * y.num, x.den * y.den)

\* discounted_meals with numpy's division: a zero efficiency gives inf
\* instead of raising
discounted_mealsNumpy(meals_per_year, discount_rate_tech, t) ==
    LET df == discount_factor(discount_rate_tech, t) IN
    IF df.err THEN NoSeries
    ELSE LET energy == Frac(meals_per_year.num * 364 * t.efficiency.den,
                            meals_per_year.den * 100 * t.efficiency.num)
             energy_needed == [k \in 1..df.proj_life |->
                                 IF df.proj_life > 1 /\ k = 1 THEN Frac(0, 1)
                                 ELSE energy]
         IN IF t.efficiency.num = 0
            THEN [err |-> FALSE, series |-> energy_needed]
            ELSE Divide(energy_needed, df.factors)

\* discounted_meals(meals_per_year, discount_rate_tech, tech): line 322
\* divides Python numbers, so that a zero efficiency raises
\* ZeroDivisionError
discounted_meals(meals_per_year, discount_rate_tech, t) ==
    LET df == discount_factor(discount_rate_tech, t) IN
    IF df.err THEN NoSeries
    ELSE IF t.efficiency.num = 0 THEN NoSeries
    ELSE LET energy == Frac(meals_per_year.num * 364 * t.efficiency.den,
                            meals_per_year.den * 100 * t.efficiency.num)
             energy_needed == [k \in 1..df.proj_life |->
                                 IF df.proj_life > 1 /\ k = 1 THEN Frac(0, 1)
                                 ELSE energy]
         IN Divide(energy_needed, df.factors)

\* carbon_emissions(tech): 5 * (3.64 / efficiency) / energy_content
\*   * (carbon_intensity * energy_content / efficiency)
carbon_emissions(t) ==
    IF t.efficiency.num = 0 \/ t.energy_content.num = 0 THEN NoSeries
    ELSE [err |-> FALSE,
          series |-> <<Frac(5 * 364 * t.efficiency.den * t.energy_content.den
                               * t.carbon_intensity.num * t.energy_content.num
                               * t.efficiency.den,
                            100 * t.efficiency.num * t.energy_content.num
                               * t.carbon_intensity.den * t.energy_content.den
                               * t.efficiency.num)>>]

\* salvage(discount_rate_tech, tech)
salvage(discount_rate_tech, t) ==
    LET df == discount_factor(discount_rate_tech, t) IN
    IF df.err THEN NoSeries
    \* lines 367-368: np.zeros(project_life), used_life = project_life
    ELSE IF project_life = << >> THEN NoSeries
    ELSE LET zeros == [k \in 1..project_life[1] |-> Frac(0, 1)]
             used_life == IF df.proj_life > t.tech_life.num
                          THEN project_life[1] - t.tech_life.num
                          ELSE project_life[1]
         \* line 373: used_life / tech.tech_life on Python numbers
         IN IF t.tech_life.num = 0 THEN NoSeries
            ELSE Divide([zeros EXCEPT ![Len(zeros)] =
                            Frac(t.inv_cost.num * (t.tech_life.num - used_life),
                                 t.inv_cost.den * t.tech_life.num)],
                        df.factors)

\* discounted_om(discount_rate_tech, tech): line 351 reads tech.om_costs,
\* an attribute a Technology does not have (its field is om_cost)
discounted_om(discount_rate_tech, t) ==
    LET df == discount_factor(discount_rate_tech, t) IN
    IF df.err THEN NoSeries
    ELSE IF "om_costs" \notin DOMAIN t THEN NoSeries
    ELSE IF project_life = << >> THEN NoSeries
    ELSE LET om == [k \in 1..project_life[1] |->
                      IF df.proj_life > 1
                         /\ (k = 1 \/ (df.proj_life > t.tech_life.num
                                        /\ k = t.tech_life.num + 1))
                      THEN Frac(0, 1)
                      ELSE Frac(t["om_costs"].num, t["om_costs"].den)]
         IN IF df.proj_life > 1 /\ df.proj_life > t.tech_life.num
               /\ t.tech_life.num >= project_life[1]
            THEN NoSeries
            ELSE Divide(om, df.factors)

\* the positional parameters without a default of discounted_fuel_cost, of
\* morbidity and of mortality
FuelCostParams == 5
MorbidityParams == 14
MortalityParams == 11

\* cost(discount_rate_tech, tech, meals_per_year, road_friction, lpg): the
\* operands are evaluated from left to right; discounted_fuel_cost is
\* called with four arguments
cost(discount_rate_tech, t, meals_per_year) ==
    IF discounted_inv(discount_rate_tech, t).err THEN NoSeries
    ELSE IF discounted_om(discount_rate_tech, t).err THEN NoSeries
    ELSE IF 4 < FuelCostParams THEN NoSeries
    ELSE IF salvage(discount_rate_tech, t).err THEN NoSeries
    ELSE IF discounted_meals(meals_per_year, discount_rate_tech, t).err THEN NoSeries
    ELSE [err |-> FALSE, series |-> << >>]

\* benefit(...): morbidity is called with seven arguments and mortality
\* with eight
benefit(t) ==
    IF 7 < MorbidityParams THEN NoSeries
    ELSE IF 8 < MortalityParams THEN NoSeries
    ELSE carbon_emissions(t)

\* net_costs(...): cost(...) - benefit(...), and no return statement
net_costs(discount_rate_tech, t, meals_per_year) ==
    IF cost(discount_rate_tech, t, meals_per_year).err THEN NoSeries
    ELSE IF benefit(t).err THEN NoSeries
    ELSE [err |-> FALSE, series |-> << >>]

Outcome(r) == IF r.err THEN "error" ELSE "ok"

DiscountedMeals(meals_per_year, discount_rate_tech) ==
    LET r == discounted_meals(meals_per_year, discount_rate_tech, technology[1]) IN
    /\ lastCall' = TechCall("discounted_meals", Outcome(r), discount_rate_tech,
                            r.series, 0)
    /\ UNCHANGED econVars

CarbonEmissions ==
    LET r == carbon_emissions(technology[1]) IN
    /\ lastCall' = TechCall("carbon_emissions", Outcome(r), "", r.series, 0)
    /\ UNCHANGED econVars

Salvage(discount_rate_tech) ==
    LET r == salvage(discount_rate_tech, technology[1]) IN
    /\ lastCall' = TechCall("salvage", Outcome(r), discount_rate_tech, r.series, 0)
    /\ UNCHANGED econVars

DiscountedOm(discount_rate_tech) ==
    LET r == discounted_om(discount_rate_tech, technology[1]) IN
    /\ lastCall' = TechCall("discounted_om", Outcome(r), discount_rate_tech,
                            r.series, 0)
    /\ UNCHANGED econVars

Cost(discount_rate_tech, meals_per_year) ==
    LET r == cost(discount_rate_tech, technology[1], meals_per_year) IN
    /\ lastCall' = TechCall("cost", Outcome(r), discount_rate_tech, r.series, 0)
    /\ UNCHANGED econVars

NetCosts(discount_rate_tech, meals_per_year) ==
    LET r == net_costs(discount_rate_tech, technology[1], meals_per_year) IN
    /\ lastCall' = TechCall("net_costs", Outcome(r), discount_rate_tech, r.series, 0)
    /\ UNCHANGED econVars

DiscountFactor(discount_rate_tech) ==
    LET df == discount_factor(discount_rate_tech, technology[1]) IN
    /\ lastCall' = TechCall("discount_factor", IF df.err THEN "error" ELSE "ok",
                            discount_rate_tech, df.factors, df.proj_life)
    /\ UNCHANGED econVars

DiscountedInv(discount_rate_tech) ==
    LET r == discounted_inv(discount_rate_tech, technology[1]) IN
    /\ lastCall' = TechCall("discounted_inv", IF r.err THEN "error" ELSE "ok",
                            discount_rate_tech, r.series, 0)
    /\ UNCHANGED econVars

MaxAppends == 6   \* totals appended to each vector of a cohort loop

\* rr - 1 for an endpoint, kept by sign (0: exactly 0, 1: positive): rr is
\* 1 below the threshold, and 1 + c * (1 - exp(-a * (pm25 - threshold) ** b))
\* from the threshold on, which is 1 at the threshold and more above it
Excess(pm25, thousandths) ==
    IF pm25.num * 1000 <= thousandths * pm25.den THEN 0 ELSE 1

\* the sign of a cohort's total: the sum over the four endpoints of
\* weight * cost * household size * paf * rate / (1 + r) ** years, with
\* paf = sfu * (rr - 1) / (sfu * (rr - 1) + 1) and positive inputs
CohortTotal(t) ==
    IF \E thousandths \in {7298, 7337, 7505, 7345} : Excess(t.pm25, thousandths) = 1
    THEN 1 ELSE 0

\* np.sum of a vector of totals, by sign
SumSigns(vector) == IF \E k \in 1..Len(vector) : vector[k] = 1 THEN 1 ELSE 0

\* morbidity(...), mortality(...) up to the loop: i = 1 and two empty vectors
EnterCohortLoop(fn) ==
    /\ frame = << >>
    /\ frame' = <<[fn |-> fn, i |-> 1, U_vector |-> << >>, R_vector |-> << >>]>>
    /\ lastCall' = TechCall(fn, "running", "", << >>, 0)
    /\ UNCHANGED <<technology, project_life>>

\* one evaluation of `while i < 6:` in fn: the body appends the urban and
\* the rural total of cohort i and leaves i as it is; the exit returns the sums
CohortLoop(fn) ==
    /\ frame # << >>
    /\ frame[1].fn = fn
    /\ IF frame[1].i < 6
       THEN /\ Len(frame[1].U_vector) < MaxAppends
            /\ frame' = <<[frame[1] EXCEPT
                              !.U_vector = Append(@, CohortTotal(technology[1])),
                              !.R_vector = Append(@, CohortTotal(technology[1]))]>>
            /\ UNCHANGED lastCall
       ELSE /\ frame' = << >>
            /\ lastCall' = TechCall(fn, "ok", "",
                                    <<SumSigns(frame[1].R_vector),
                                      SumSigns(frame[1].U_vector)>>, 0)
    /\ UNCHANGED <<technology, project_life>>

\* the values a configuration gives a field
FieldValues(idx) ==
    CASE idx = "efficiency" -> Efficiencies
      [] idx = "energy_content" -> EnergyContents
      [] idx = "pm25" -> Pm25s
      [] idx = "tech_life" -> Lives
      [] OTHER -> {IntVal(1)}

TechNext ==
    \/ \E value \in Lives :
          TechSetItem("tech_life", value) /\ UNCHANGED nonEconVars
    \/ \E value \in InvCosts :
          TechSetItem("inv_cost", value) /\ UNCHANGED nonEconVars
    \/ \E value \in Years :
          TechSetItem("start_year", value) /\ UNCHANGED nonEconVars
    \/ \E value \in Years :
          TechSetItem("end_year", value) /\ UNCHANGED nonEconVars
    \/ \E value \in FieldValues("colour") :
          TechSetItem("colour", value) /\ UNCHANGED nonEconVars
    \/ \E years \in YearPairs :
          SetYears(years[1], years[2]) /\ UNCHANGED nonEconVars
    \/ \E rate \in Rates : DiscountFactor(rate) /\ UNCHANGED nonEconVars
    \/ \E rate \in Rates : DiscountedInv(rate) /\ UNCHANGED nonEconVars
    \/ \E rate \in Rates : Salvage(rate) /\ UNCHANGED nonEconVars

TechSpec == TechInit /\ [][TechNext]_vars

\* Technology(pm25=0, efficiency=1, tech_life=10, inv_cost=100, om_cost=0.1)
ScenarioTechnology ==
    [NewTechnology EXCEPT !.pm25 = IntVal(0), !.efficiency = IntVal(1),
                          !.tech_life = IntVal(10), !.inv_cost = IntVal(100),
                          !.om_cost = FloatVal(1, 10)]

\* a technology as constructed, with its defaults or with the scenario's
\* arguments
CostInit ==
    /\ layers = << >>
    /\ objs = << >>
    /\ project_crs = "None"
    /\ cell_size = << >>
    /\ base_layer = 0
    /\ mask_layer = << >>
    /\ csv = << >>
    /\ specs = << >>
    /\ techs = << >>
    /\ gdf = << >>
    /\ cells = << >>
    /\ technology \in {<<NewTechnology>>, <<ScenarioTechnology>>}
    /\ project_life \in ProjectLifeGlobals
    /\ frame = << >>
    /\ lastCall = TechCall("Technology", "ok", "", << >>, 0)

CostNext ==
    \/ \E idx \in {"efficiency", "energy_content", "pm25", "tech_life"} :
          \E value \in FieldValues(idx) :
             frame = << >> /\ TechSetItem(idx, value) /\ UNCHANGED nonEconVars
    \/ \E years \in {<<IntVal(2020), IntVal(2021)>>, <<IntVal(2020), IntVal(2030)>>} :
          frame = << >> /\ SetYears(years[1], years[2]) /\ UNCHANGED nonEconVars
    \/ \E rate \in Rates, meals_per_year \in Meals :
          frame = << >> /\ DiscountedMeals(meals_per_year, rate)
                       /\ UNCHANGED nonEconVars
    \/ frame = << >> /\ CarbonEmissions /\ UNCHANGED nonEconVars
    \/ \E rate \in Rates :
          frame = << >> /\ Salvage(rate) /\ UNCHANGED nonEconVars
    \/ \E rate \in Rates :
          frame = << >> /\ DiscountedOm(rate) /\ UNCHANGED nonEconVars
    \/ \E rate \in Rates, meals_per_year \in Meals :
          frame = << >> /\ Cost(rate, meals_per_year) /\ UNCHANGED nonEconVars
    \/ \E rate \in Rates, meals_per_year \in Meals :
          frame = << >> /\ NetCosts(rate, meals_per_year) /\ UNCHANGED nonEconVars
    \/ EnterCohortLoop("morbidity") /\ UNCHANGED nonEconVars
    \/ EnterCohortLoop("mortality") /\ UNCHANGED nonEconVars
    \/ CohortLoop("morbidity") /\ UNCHANGED nonEconVars
    \/ CohortLoop("mortality") /\ UNCHANGED nonEconVars

CostSpec == CostInit /\ [][CostNext]_vars

-----------------------------------------------------------------------------
(* Properties of the layer pipeline *)

PipelineOps == {"mask_layers", "align_layers", "reproject_layers",
                "get_distance_rasters", "normalize_rasters", "save_datasets"}

\* C1: a mask_layers call made while no mask boundary is loaded raises, for
\* every selection, and leaves every registered layer and every nested
\* friction raster as it was.
C1_MaskWithoutBoundaryFails ==
    [][(lastCall'.op = "mask_layers" /\ mask_layer = << >>)
          => /\ lastCall'.outcome = "error"
             /\ objs' = objs
             /\ layers' = layers]_vars

\* a failed mask_layers call with no boundary, on a registry holding a layer
\* with a friction raster
C1_Witness ==
    /\ lastCall.op = "mask_layers"
    /\ lastCall.outcome = "error"
    /\ mask_layer = << >>
    /\ \E it \in ItemsOf(layers) : HasFriction(objs[it.id])

\* C2: a pipeline operation that returns has gone through every registered
\* layer for 'all', and through exactly the listed (category, name) pairs for
\* an explicit selection.
C2_SelectionProcessed ==
    (lastCall.op \in PipelineOps /\ lastCall.outcome = "ok")
        => lastCall.visited = IF lastCall.sel.all THEN PairsOf(layers)
                              ELSE Listed(lastCall.sel)

\* shape and transform of a raster equal those of the base layer
SameGrid(l, base) ==
    /\ l.a = base.a
    /\ l.b = base.b
    /\ l.e = base.e
    /\ l.ext = base.ext

\* C3: after align_layers('all') has returned, every registered raster and
\* every friction raster is on the base layer's grid.
C3_AllRastersAligned ==
    (lastCall.op = "align_layers" /\ lastCall.sel.all /\ lastCall.outcome = "ok")
        => \A it \in ItemsOf(layers) :
              /\ objs[it.id].kind = "raster"
                    => base_layer # 0 /\ SameGrid(objs[it.id], objs[base_layer])
              /\ HasFriction(objs[it.id])
                    => base_layer # 0
                       /\ SameGrid(objs[it.id].friction[1], objs[base_layer])

\* the canonical grid: CRS, cell size and the extent of the base layer
BaseGridSet == project_crs # "None" /\ cell_size # << >> /\ base_layer # 0
BaseGrid == <<project_crs, cell_size, objs[base_layer].ext>>

\* C4 as claimed: once the canonical grid is set, no call changes it.
C4_BaseGridImmutable ==
    [][BaseGridSet => (BaseGridSet' /\ BaseGrid' = BaseGrid)]_vars

\* C4 as amended: once set, the project CRS and the cell size never change,
\* and the base layer is rebound only by add_layer with base_layer=True.
C4_GridParametersFixed ==
    [][/\ project_crs # "None" => project_crs' = project_crs
       /\ cell_size # << >> => cell_size' = cell_size
       /\ (base_layer # 0 /\ ~(lastCall'.op = "add_layer" /\ lastCall'.base))
             => base_layer' = base_layer]_vars

\* a second raster registered with base_layer=True, whose file has another
\* CRS and cell width than the project, has become the base layer
C4_Witness ==
    /\ base_layer = 2
    /\ lastCall.op = "add_layer"
    /\ lastCall.base
    /\ FileMeta(objs[2].path).crs # project_crs
    /\ FileMeta(objs[2].path).a # cell_size[1]

-----------------------------------------------------------------------------
(* Properties of the configuration readers *)

RecognisedTypes == {"int", "float", "string"}

\* the fields __setitem__ knows
TechKeys == {"name", "energy_content", "carbon_intensity", "fuel_cost",
             "tech_life", "inv_cost", "infra_cost", "om_cost", "time_of_cooking",
             "efficiency", "pm25"}

\* the rows of a file that are not skipped
Kept(rows) == {i \in 1..Len(rows) : rows[i].Value # ""}

\* a kept row on which the reader raises
BadRow(r) ==
    \/ r.data_type \notin RecognisedTypes
    \/ r.data_type = "int" /\ ~IsIntText(r.Value)
    \/ r.data_type = "float" /\ ~IsFloatText(r.Value)

\* the value a row stores
Stored(r) ==
    CASE r.data_type = "int"    -> IntVal(ParseNum(r.Value)[1])
      [] r.data_type = "float"  -> FloatVal(ParseNum(r.Value)[1], ParseNum(r.Value)[2])
      [] r.data_type = "string" -> StrVal(r.Value)

\* the last kept row of the file among those in the set S
LastOf(S) == CHOOSE i \in S : \A j \in S : j <= i

\* what read_scenario_data stores for a file none of whose rows raises
ExpectedSpecs(rows) ==
    [p \in {rows[i].Param : i \in Kept(rows)} |->
        Stored(rows[LastOf({i \in Kept(rows) : rows[i].Param = p})])]

\* what read_tech_data stores for a file none of whose rows raises
ExpectedTechs(rows) ==
    [f \in {rows[i].Fuel : i \in Kept(rows)} |->
        [k \in DOMAIN NewTechnology |->
            IF \E i \in Kept(rows) : rows[i].Fuel = f /\ rows[i].Param = k
            THEN Stored(rows[LastOf({i \in Kept(rows) :
                                       rows[i].Fuel = f /\ rows[i].Param = k})])
            ELSE NewTechnology[k]]]

\* C9 as claimed: a read fails whenever the file holds a row whose data_type
\* is not int, float or string.
C9_UnknownTypeAlwaysFails ==
    [][(lastCall'.op \in {"read_scenario_data", "read_tech_data"}
          /\ \E i \in 1..Len(csv) : csv[i].data_type \notin RecognisedTypes)
         => lastCall'.outcome = "error"]_vars

\* C9 as amended: rows with an empty Value are skipped whatever their
\* data_type; a read raises exactly when a kept row has an unrecognised
\* data_type or a Value int()/float() rejects (or, for technologies, a Param
\* that is no Technology field), and then specs / techs are left as they
\* were; otherwise every kept row is stored under its Param (per Fuel),
\* converted, the last row of a Param winning.
C9_ReadersStoreOrFail ==
    [][/\ lastCall'.op = "read_scenario_data" =>
            IF \E i \in Kept(csv) : BadRow(csv[i])
            THEN lastCall'.outcome = "error" /\ specs' = specs
            ELSE lastCall'.outcome = "ok" /\ specs' = <<ExpectedSpecs(csv)>>
       /\ lastCall'.op = "read_tech_data" =>
            IF \E i \in Kept(csv) : BadRow(csv[i]) \/ csv[i].Param \notin TechKeys
            THEN lastCall'.outcome = "error" /\ techs' = techs
            ELSE lastCall'.outcome = "ok" /\ techs' = <<ExpectedTechs(csv)>>]_vars

\* read_scenario_data has raised on a file that holds a row of unrecognised
\* data_type with a Value and a row without a Value, and the specs an earlier
\* read had stored are still there
C9_Witness ==
    /\ lastCall.op = "read_scenario_data"
    /\ lastCall.outcome = "error"
    /\ specs # << >>
    /\ \E i \in Kept(csv) : csv[i].data_type \notin RecognisedTypes
    /\ \E i \in 1..Len(csv) : csv[i].Value = ""

-----------------------------------------------------------------------------
(* Properties of the point table *)

\* every column taken from a raster holds, row for row, the values of that
\* raster at the cells of the current index (self.rows, self.cols)
RowsMatchCells ==
    gdf # << >> =>
        \A c \in ColsOf(gdf) :
            gdf[1].cols[c].src # << >> =>
                gdf[1].cols[c].vals = ValuesAt(gdf[1].cols[c].src, cells)

\* C8 as stated: sampled columns always match the cell index, a
\* raster_to_dataframe call before any extraction is rejected, and a
\* population_to_dataframe call after a column was sampled is rejected
C8_ExtractOnceBeforeSampling ==
    /\ RowsMatchCells
    /\ (lastCall.op = "raster_to_dataframe" /\ gdf = << >>) =>
           lastCall.outcome = "error"
    /\ (lastCall.op = "population_to_dataframe" /\ lastCall.dropped # {}) =>
           lastCall.outcome = "error"

\* C8 amended: sampled columns always match the cell index; raster_to_dataframe
\* with method 'sample' or 'read' fails exactly when no extraction was done
\* and any other method returns without error; population_to_dataframe never
\* fails and leaves a table with the columns geometry and Pop only
C8_SampledColumnsMatchIndex ==
    /\ RowsMatchCells
    /\ lastCall.op = "raster_to_dataframe" =>
           IF lastCall.arg \in {"sample", "read"}
           THEN lastCall.outcome = "error" <=> gdf = << >>
           ELSE lastCall.outcome = "ok"
    /\ lastCall.op = "population_to_dataframe" =>
           /\ lastCall.outcome = "ok"
           /\ ColsOf(gdf) = {"geometry", "Pop"}

\* population_to_dataframe has run on a table that held sampled columns and
\* has built an index of two cells from a raster of three
C8_Witness ==
    /\ lastCall.op = "population_to_dataframe"
    /\ lastCall.dropped # {}
    /\ Len(cells) = 2

\* calibrate_urban's stated preconditions: population extracted and
\* calibrated, cell size and scenario numbers given
Prepared ==
    /\ gdf # << >>
    /\ HasCol(gdf[1], "Calibrated_pop")
    /\ HasNumber("Population_start_year")
    /\ HasNumber("Urban_start")
    /\ cell_size # << >>

\* C5: calibrate_urban returns normally after at most 500 iterations, the
\* last classification in the table
C5_CalibrateUrbanTerminates ==
    (lastCall.op = "calibrate_urban" /\ Prepared) =>
        /\ lastCall.outcome = "ok"
        /\ lastCall.iters <= IterationCap
        /\ lastCall.iters >= 1 => HasCol(gdf[1], "IsUrban")

\* the classification the specification gives a point: tier 2, else tier 1,
\* else 0, by population and population per cell area
ClaimedClass(t, factor) ==
    [i \in 1..NRows(t) |->
        LET pop == t.cols["Pop"].vals[i]
            density == Frac(pop.num, pop.den * cell_size[1] * cell_size[2])
            over(minPop, minDensity) ==
                /\ FracGT(pop, Frac(minPop * factor.num, factor.den))
                /\ FracGT(density, Frac(minDensity * factor.num, factor.den))
        IN IF over(50000, 1500) THEN Frac(2, 1)
           ELSE IF over(5000, 350) THEN Frac(1, 1)
           ELSE Frac(0, 1)]

RECURSIVE GCD(_, _)
GCD(x, y) == IF y = 0 THEN x ELSE GCD(y, x % y)
Reduce(x) == Frac(x.num \div GCD(x.num, x.den), x.den \div GCD(x.num, x.den))

\* the share the specification compares with the target: Calibrated_pop of
\* the points of tier 1 or 2, over the total population
ClaimedShare(t, factor) ==
    Reduce(Frac(SumWhere(t.cols["Calibrated_pop"].vals, ClaimedClass(t, factor), 1, 1)
                    * specs[1]["Population_start_year"].den,
                t.cols["Calibrated_pop"].vals[1].den
                    * specs[1]["Population_start_year"].num))

\* C6: when the classification at factor 1 gives a share within 0.01 of
\* Urban_start, calibrate_urban returns after exactly one iteration with
\* that classification in IsUrban
C6_ConvergesAtFactorOne ==
    (/\ lastCall.op = "calibrate_urban"
     /\ Prepared
     /\ ~FarFrom(ClaimedShare(gdf[1], Frac(1, 1)), specs[1]["Urban_start"])) =>
        /\ lastCall.outcome = "ok"
        /\ lastCall.iters = 1
        /\ HasCol(gdf[1], "IsUrban")
        /\ gdf[1].cols["IsUrban"].vals = ClaimedClass(gdf[1], Frac(1, 1))

FracEq(x, y) == x.num * y.den = y.num * x.den

\* C7: an iteration of calibrate_urban classifies every point 0, 1 or 2 by
\* the thresholds and computes the share as Calibrated_pop over the points
\* of tier 1 or 2, divided by the total population
C7_ShareOverBothTiers ==
    (/\ lastCall.op = "calibrate_urban"
     /\ Prepared
     /\ FarFrom(Frac(2, 1), specs[1]["Urban_start"])) =>
        /\ HasCol(gdf[1], "IsUrban")
        /\ \A i \in 1..NRows(gdf[1]) : gdf[1].cols["IsUrban"].vals[i].num \in {0, 1, 2}
        /\ Len(lastCall.shares) >= 1
        /\ FracEq(lastCall.shares[1], ClaimedShare(gdf[1], Frac(1, 1)))

-----------------------------------------------------------------------------
(* Properties of the discounted series *)

\* C10: for tech_life > 0 the discounted investment series has length
\* project_life = end_year - start_year (1 for equal years); with
\* project_life >= tech_life its entries are inv_cost / (1 + r)^index at
\* index 0 and, when project_life > tech_life, at index tech_life, and zero
\* elsewhere
C10_DiscountedInvSeries ==
    (/\ lastCall.op = "discounted_inv"
     /\ technology[1].tech_life.num > 0
     /\ technology[1].start_year # Unset
     /\ technology[1].end_year # Unset) =>
        LET t == technology[1]
            r == lastCall.arg
            life == t.tech_life.num
            horizon == IF t.start_year.num = t.end_year.num THEN 1
                       ELSE t.end_year.num - t.start_year.num
        IN /\ lastCall.outcome = "ok"
           /\ Len(lastCall.series) = horizon
           /\ horizon >= life =>
                \A k \in 1..horizon :
                    FracEq(lastCall.series[k],
                           IF k = 1 \/ (horizon > life /\ k = life + 1)
                           THEN FracDiv(Frac(t.inv_cost.num, t.inv_cost.den),
                                        Pow(Frac(r.den + r.num, r.den), k - 1))
                           ELSE Frac(0, 1))

-----------------------------------------------------------------------------
(* Properties of the cost and benefit functions *)

YearsSet(t) == t.start_year # Unset /\ t.end_year # Unset

\* C11: with efficiency = 0, discounted_meals, carbon_emissions, cost and
\* net_costs end in an error, and with tech_life = 0 so do salvage, cost and
\* net_costs; none of them returns a value
C11_ZeroDivisorFails ==
    /\ (/\ lastCall.op \in {"discounted_meals", "carbon_emissions", "cost", "net_costs"}
        /\ technology[1].efficiency.num = 0) => lastCall.outcome = "error"
    /\ (/\ lastCall.op \in {"salvage", "cost", "net_costs"}
        /\ technology[1].tech_life.num = 0) => lastCall.outcome = "error"

\* discounted_meals has been called for a technology of efficiency 0 whose
\* years are set, so that the division is what failed
C11_Witness ==
    /\ lastCall.op = "discounted_meals"
    /\ technology[1].efficiency.num = 0
    /\ YearsSet(technology[1])
    /\ lastCall.outcome = "error"

\* C12: for the technology with pm25 = 0, efficiency = 1, tech_life = 10,
\* inv_cost = 100, om_cost = 0.1 and the years 2020 to 2030, net_costs
\* returns without an error and the cohort totals of morbidity and mortality
\* are exactly 0
C12_ScenarioNetCosts ==
    (/\ lastCall.op = "net_costs"
     /\ technology[1] = [ScenarioTechnology EXCEPT !.start_year = IntVal(2020),
                                                   !.end_year = IntVal(2030)]) =>
        /\ lastCall.outcome = "ok"
        /\ CohortTotal(technology[1]) = 0

\* C13: the cohort loop of morbidity and mortality visits the cohorts 1 to
\* 5 once each: while it runs, the cohorts below i are the ones visited, one
\* urban and one rural total appended for each, and never more than 5
C13_CohortsVisitedOnce ==
    frame # << >> =>
        /\ Len(frame[1].U_vector) = frame[1].i - 1
        /\ Len(frame[1].R_vector) = frame[1].i - 1
        /\ Len(frame[1].U_vector) <= 5

\* the fields of the Technology data model
DataModelFields == TechKeys \cup {"start_year", "end_year"}

\* C14: tech[key] = value sets the field of that name, for each field of the
\* data model, and leaves every other field as it was; any other key is
\* rejected with an error and changes no field
C14_SetItemByKey ==
    [][lastCall'.op = "__setitem__" =>
        IF lastCall'.arg \in DataModelFields
        THEN /\ lastCall'.outcome = "ok"
             /\ technology'[1][lastCall'.arg] = lastCall'.series[1]
             /\ \A f \in DataModelFields \ {lastCall'.arg} :
                    technology'[1][f] = technology[1][f]
        ELSE /\ lastCall'.outcome = "error"
             /\ technology' = technology]_vars

\* x * y, cancelling common factors before multiplying
Times(x, y) ==
    LET g1 == GCD(Abs(x.num), y.den)
        g2 == GCD(Abs(y.num), x.den)
    IN Frac((x.num \div g1) * (y.num \div g2), (x.den \div g2) * (y.den \div g1))

\* C15: for tech_life > 0 the salvage series is zero at every index but the
\* last, and the undiscounted last entry lies between 0 and inv_cost; when
\* the first unit is still installed at the end of the horizon it is
\* inv_cost * (1 - project_life / tech_life)
C15_SalvageFinalYear ==
    (/\ lastCall.op = "salvage"
     /\ technology[1].tech_life.num > 0
     /\ YearsSet(technology[1])) =>
        LET t == technology[1]
            r == lastCall.arg
            life == t.tech_life.num
            horizon == IF t.start_year.num = t.end_year.num THEN 1
                       ELSE t.end_year.num - t.start_year.num
            final == Times(lastCall.series[horizon],
                           Pow(Frac(r.den + r.num, r.den), horizon - 1))
        IN /\ lastCall.outcome = "ok"
           /\ Len(lastCall.series) = horizon
           /\ \A k \in 1..(horizon - 1) : lastCall.series[k].num = 0
           /\ final.num >= 0
           /\ ~FracGT(final, Frac(t.inv_cost.num, t.inv_cost.den))
           /\ horizon <= life =>
                FracEq(final, Frac(t.inv_cost.num * (life - horizon),
                                   t.inv_cost.den * life))

====
